---- MODULE Spec2Model ----
(***************************************************************************)
(* A model of ubikom-bot (cmd/ubikom-bot/main.go): the startup sequence,   *)
(* the poll loop that drains every identity's inbox, the per-message       *)
(* verify / decrypt / parse / dispatch / compose / send pipeline, and the  *)
(* goroutine that refreshes the headline cache.                            *)
(*                                                                         *)
(* Text is modelled as sequences of one-character strings where the code   *)
(* looks inside it (the subject handed to strconv.ParseInt) and as         *)
(* sequences of tokens where it looks at line prefixes (the header         *)
(* filter).  The remote services (dump service, directory, transport) are  *)
(* the environment: every outcome the code distinguishes is an input.      *)
(***************************************************************************)
EXTENDS Integers, Sequences, FiniteSets, TLC

VARIABLES
    pc,                   \* position of the main goroutine
    args,                 \* CmdArgs: Keys and UseLegacyLookupService
    keys,                 \* []*KeyEntry
    combinedLookupClient, \* the resolver chosen at startup
    cache,                \* newscache: the ordered headline list
    refresher,            \* state of the refresh goroutine
    nRefresh,             \* refresh ticks so far
    cycles,               \* poll ticks so far
    ki,                   \* index of `key` in `for _, key := range keys`
    nRecv,                \* Receive calls so far
    res,                  \* res.GetMessage() of the last Receive
    err,                  \* the main goroutine's `err`
    lookupRes,            \* result of the inbound LookupName
    content,              \* decrypted plaintext
    to,                   \* al[0].Address
    subj,                 \* h.Subject()
    articleId,            \* the parsed article id
    email,                \* the Email handed to CreateTextEmail
    resp,                 \* the composed reply bytes
    call                  \* the last request made to a collaborator

vars == <<pc, args, keys, combinedLookupClient, cache, refresher, nRefresh,
          cycles, ki, nRecv, res, err, lookupRes, content, to, subj,
          articleId, email, resp, call>>

----------------------------------------------------------------------------
(* Bounds of the model.                                                    *)

MaxCycles == 2
MaxRecv == 3
MaxRefresh == 2

----------------------------------------------------------------------------
(* Constants of the program.                                               *)

headlinesSubject == "headlinesSubject"
header == "header"
footer == "footer"
Domain == "ubikom.cc"
ArticleFromName == "Ubikom War Info"
Gateway == "gateway"
ParseIntBitSize == 32

----------------------------------------------------------------------------
(* strconv.ParseInt(subj, 10, 32), computed as the library computes it:    *)
(* an optional sign, then ParseUint over the digits, which stops with a    *)
(* syntax error at the first character that is no digit and with a range   *)
(* error as soon as the value passes the unsigned limit; ParseInt then     *)
(* clamps a value outside the signed range and reports a range error.      *)
(* The unsigned accumulator is kept exactly up to the signed maximum;      *)
(* above it only its class is kept ("eq": exactly 2^31, "gt": larger and   *)
(* still within 32 unsigned bits), which is all ParseInt reads of it.      *)

Digits == <<"0", "1", "2", "3", "4", "5", "6", "7", "8", "9">>

IsDigit(c) == \E i \in 1..10 : Digits[i] = c

DigitVal(c) == (CHOOSE i \in 1..10 : Digits[i] = c) - 1

ErrNil == "nil"
ErrSyntax == "ErrSyntax"
ErrRange == "ErrRange"

IntMax == (2^(ParseIntBitSize - 2) - 1) * 2 + 1
IntMin == (0 - IntMax) - 1
UintMaxDiv10 == (IntMax \div 10) * 2 + (((IntMax % 10) * 2 + 1) \div 10)
UintMaxMod10 == ((IntMax % 10) * 2 + 1) % 10

(* n * 10 + d, classified without leaving the checker's integers.          *)
Accumulate(n, d) ==
    IF n <= (IntMax - d) \div 10 THEN [val |-> n * 10 + d, wide |-> "no"]
    ELSE IF n > UintMaxDiv10 \/ (n = UintMaxDiv10 /\ d > UintMaxMod10)
         THEN [val |-> 0, wide |-> "overflow"]
    ELSE IF d >= 1 /\ n <= (IntMax - (d - 1)) \div 10
         THEN [val |-> 0, wide |-> "eq"]
    ELSE [val |-> 0, wide |-> "gt"]

RECURSIVE ParseUintFrom(_, _, _, _)
ParseUintFrom(s, i, n, wide) ==
    IF i > Len(s) THEN [val |-> n, wide |-> wide, err |-> ErrNil]
    ELSE IF ~IsDigit(s[i]) THEN [val |-> 0, wide |-> "no", err |-> ErrSyntax]
    ELSE IF wide # "no" THEN [val |-> 0, wide |-> "gt", err |-> ErrRange]
    ELSE LET a == Accumulate(n, DigitVal(s[i]))
         IN  IF a.wide = "overflow"
             THEN [val |-> 0, wide |-> "gt", err |-> ErrRange]
             ELSE ParseUintFrom(s, i + 1, a.val, a.wide)

ParseUint(s) ==
    IF Len(s) = 0 THEN [val |-> 0, wide |-> "no", err |-> ErrSyntax]
    ELSE ParseUintFrom(s, 1, 0, "no")

ParseInt(s) ==
    IF Len(s) = 0 THEN [val |-> 0, err |-> ErrSyntax]
    ELSE LET neg == s[1] = "-"
             rest == IF s[1] = "+" \/ s[1] = "-" THEN Tail(s) ELSE s
             un == ParseUint(rest)
         IN  IF un.err = ErrSyntax THEN [val |-> 0, err |-> ErrSyntax]
             ELSE IF ~neg /\ un.wide # "no"
                  THEN [val |-> IntMax, err |-> ErrRange]
             ELSE IF neg /\ un.wide = "gt"
                  THEN [val |-> IntMin, err |-> ErrRange]
             ELSE IF neg /\ un.wide = "eq"
                  THEN [val |-> IntMin, err |-> ErrNil]
             ELSE [val |-> IF neg THEN 0 - un.val ELSE un.val, err |-> ErrNil]

(* main.go 229-232: the error of ParseInt is discarded, its value kept.    *)
ArticleIdOf(s) == IF Len(s) # 0 THEN ParseInt(s).val ELSE 0

(* A dispatch that asks for an article only for a positive id.             *)
IsArticleRequest_PositiveOnly(id) == id > 0

(* main.go 235: the branch that makes the message an article request.      *)
IsArticleRequest(id) == id # 0

----------------------------------------------------------------------------
(* Documents.  A document is a sequence of lines; a line is its leading    *)
(* tokens (all the header filter and the header parser look at) and the    *)
(* decoded value that follows them: the address list of a From header, the *)
(* characters of a Subject header.  ok = FALSE marks a value the mail      *)
(* library cannot decode.                                                  *)

NoVal == [ok |-> TRUE, items |-> <<>>]

Line(tok) == [tok |-> tok, val |-> NoVal]

FromLine(addrs) == [tok |-> <<"From", ":">>, val |-> [ok |-> TRUE, items |-> addrs]]

BadFromLine == [tok |-> <<"From", ":">>, val |-> [ok |-> FALSE, items |-> <<>>]]

SubjectLine(s) == [tok |-> <<"Subject", ":">>, val |-> [ok |-> TRUE, items |-> s]]

BadSubjectLine == [tok |-> <<"Subject", ":">>, val |-> [ok |-> FALSE, items |-> <<>>]]

BlankLine == Line(<<>>)

CRLine == Line(<<"\r">>)

(* strings.HasPrefix(line, p) for a prefix p given as tokens.              *)
HasPrefix(line, p) ==
    /\ Len(line.tok) >= Len(p)
    /\ \A i \in 1..Len(p) : line.tok[i] = p[i]

(* main.go 330: line == "" || line == "\r".                                *)
EndsHeaders(line) ==
    \/ Len(line.tok) = 0
    \/ (Len(line.tok) = 1 /\ line.tok[1] = "\r")

(* A condition that forgets the colon test and drops "From:" lines too.    *)
DropsLine_AnyFrom(line) ==
    \/ HasPrefix(line, <<">", "From">>)
    \/ HasPrefix(line, <<"From">>)

(* main.go 334-336: the condition under which a header line is dropped.    *)
DropsLine(line) ==
    \/ HasPrefix(line, <<">", "From">>)
    \/ (HasPrefix(line, <<"From">>) /\ ~HasPrefix(line, <<"From", ":">>))

(* main.go 324-343: the loop over the lines, with its `headers` flag.      *)
RECURSIVE FilterFrom(_, _, _, _)
FilterFrom(lines, i, headers, newLines) ==
    IF i > Len(lines) THEN newLines
    ELSE LET line == lines[i]
             h == headers /\ ~EndsHeaders(line)
         IN  IF h /\ DropsLine(line)
             THEN FilterFrom(lines, i + 1, h, newLines)
             ELSE FilterFrom(lines, i + 1, h, Append(newLines, line))

(* A join that ends every kept line, the last one too, with "\n".          *)
JoinLines_TrailingNewline(newLines) == Append(newLines, BlankLine)

(* strings.Join(newLines, "\n") read back as lines: joining no line at all *)
(* gives the empty text, which is the text of one empty line.              *)
JoinLines(newLines) == IF Len(newLines) = 0 THEN <<BlankLine>> ELSE newLines

filterMalformedHeaders(body) == JoinLines(FilterFrom(body, 1, TRUE, <<>>))

(* go-message, message.Read: the header block is the lines before the      *)
(* first blank line; a header line that is not "key: value" is an error.   *)
RECURSIVE HeaderEnd(_, _)
HeaderEnd(lines, i) ==
    IF i > Len(lines) \/ EndsHeaders(lines[i]) THEN i - 1
    ELSE HeaderEnd(lines, i + 1)

FirstColon(line) ==
    IF \E i \in 1..Len(line.tok) : line.tok[i] = ":"
    THEN CHOOSE i \in 1..Len(line.tok) :
             /\ line.tok[i] = ":"
             /\ \A j \in 1..(i - 1) : line.tok[j] # ":"
    ELSE 0

IsHeaderField(line) == FirstColon(line) >= 2

HeaderKey(line) == SubSeq(line.tok, 1, FirstColon(line) - 1)

MessageRead(lines) ==
    LET n == HeaderEnd(lines, 1)
    IN  IF \A i \in 1..n : IsHeaderField(lines[i])
        THEN [err |-> ErrNil, Header |-> SubSeq(lines, 1, n)]
        ELSE [err |-> "malformed MIME header line", Header |-> <<>>]

(* The first value a header has for a key, NoVal when the key is absent.   *)
HeaderGet(h, key) ==
    IF \E i \in 1..Len(h) : HeaderKey(h[i]) = key
    THEN h[CHOOSE i \in 1..Len(h) :
              /\ HeaderKey(h[i]) = key
              /\ \A j \in 1..(i - 1) : HeaderKey(h[j]) # key].val
    ELSE NoVal

(* go-message, mail.Header.AddressList: an absent header is an empty list. *)
AddressList(h, key) ==
    LET v == HeaderGet(h, key)
    IN  IF v.ok THEN [err |-> ErrNil, al |-> v.items]
        ELSE [err |-> "mail: invalid address list", al |-> <<>>]

(* go-message, mail.Header.Subject: the decoded text of the header.        *)
HeaderSubject(h) ==
    LET v == HeaderGet(h, <<"Subject">>)
    IN  IF v.ok THEN [err |-> ErrNil, subj |-> v.items]
        ELSE [err |-> "unknown charset", subj |-> <<>>]

(* main.go 205-227: what parsing a decrypted message ends in.              *)
ParseMessage(plain) ==
    LET e == MessageRead(filterMalformedHeaders(plain))
        al == AddressList(e.Header, <<"From">>)
        sj == HeaderSubject(e.Header)
    IN  IF e.err # ErrNil THEN [err |-> "failed to read message", to |-> "", subj |-> <<>>]
        ELSE IF al.err # ErrNil
             THEN [err |-> "failed to get from address", to |-> "", subj |-> <<>>]
        ELSE IF Len(al.al) # 1
             THEN [err |-> "more than one address in from address list",
                   to |-> "", subj |-> <<>>]
        ELSE IF sj.err # ErrNil
             THEN [err |-> "failed to get subject", to |-> al.al[1], subj |-> <<>>]
        ELSE [err |-> ErrNil, to |-> al.al[1], subj |-> sj.subj]

----------------------------------------------------------------------------
(* Keys, signatures and encryption.  A private key is named by its owner;  *)
(* a signature records who signed what; a ciphertext records the two       *)
(* parties of the key agreement and the plaintext.                         *)

PrivateKeyOf(name) == [owner |-> name]

PublicKeyOf(name) == [of |-> name, valid |-> TRUE]

(* A verification that does not compare the signed bytes.                 *)
VerifySignature_SignerOnly(signature, key, cipher) ==
    signature.by = key.of

(* protoutil.VerifySignature(signature, key, content), main.go 196.        *)
VerifySignature(signature, key, cipher) ==
    /\ signature.by = key.of
    /\ signature.over = cipher

(* PrivateKey.Decrypt(content, senderKey), main.go 200.                    *)
Decrypt(privateKey, cipher, senderKey) ==
    IF cipher.rcpt = privateKey.owner /\ cipher.from = senderKey.of
    THEN [err |-> ErrNil, plain |-> cipher.plain]
    ELSE [err |-> "failed to decode message", plain |-> <<>>]

(* protoutil.IdentityProof(privateKey, now), main.go 121.                  *)
IdentityProof(privateKey) == [key |-> privateKey.owner, made |-> "startup"]

NoProof == [key |-> "", made |-> ""]

(* getKeys, main.go 397-424.  A key file is named by the parts of its base *)
(* name between dots; readable tells whether the key can be loaded.        *)
RECURSIVE getKeysFrom(_, _, _)
getKeysFrom(keyFiles, i, ret) ==
    IF i > Len(keyFiles) THEN [err |-> ErrNil, keys |-> ret]
    ELSE IF ~keyFiles[i].readable THEN [err |-> "cannot load key", keys |-> <<>>]
    ELSE IF Len(keyFiles[i].parts) # 2
         THEN [err |-> "cannot parse key file", keys |-> <<>>]
    ELSE getKeysFrom(keyFiles, i + 1,
             Append(ret, [PrivateKey |-> PrivateKeyOf(keyFiles[i].parts[1]),
                          UbikomName |-> keyFiles[i].parts[1],
                          IdentityProof |-> NoProof]))

getKeys(keyFiles) == getKeysFrom(keyFiles, 1, <<>>)

KeyFile(parts, readable) == [parts |-> parts, readable |-> readable]

(* The command lines the model starts from.                                *)
KeyArgs ==
    { <<>>,
      <<KeyFile(<<"news", "key">>, TRUE), KeyFile(<<"war-info", "key">>, TRUE)>>,
      <<KeyFile(<<"news", "private", "key">>, TRUE)>>,
      <<KeyFile(<<"news", "key">>, FALSE)>> }

----------------------------------------------------------------------------
(* The headline cache (package newscache): an ordered list of headlines,   *)
(* each with the article it stands for.                                    *)

Headline(id, title) == [ID |-> id, Title |-> title]

CacheContents ==
    { <<>>,
      <<Headline(1, "Front line update"), Headline(2, "Ceasefire talks")>> }

BodyItem(kind, id, title) == [kind |-> kind, id |-> id, title |-> title]

ArticleText(id) == <<BodyItem("text", id, "")>>

GetHeadlines(c) == c

GetArticle(c, id) ==
    IF \E i \in 1..Len(c) : c[i].ID = id
    THEN LET h == c[CHOOSE i \in 1..Len(c) : c[i].ID = id]
         IN  [err |-> ErrNil, headline |-> h.Title, text |-> ArticleText(id)]
    ELSE [err |-> "article not found", headline |-> "", text |-> <<>>]

(* What a call of GetArticle can return: the article or not-found, or an   *)
(* error of the cache itself.                                              *)
GetArticleResults(c, id) ==
    {GetArticle(c, id), [err |-> "cache error", headline |-> "", text |-> <<>>]}

----------------------------------------------------------------------------
(* Composing replies.                                                      *)

Address(name, address) == [Name |-> name, Address |-> address]

NoAddress == Address("", <<>>)

NoEmail == [From |-> NoAddress, To |-> <<>>, Subject |-> "", Date |-> "", Body |-> <<>>]

NoBytes ==
    [Date |-> "", ContentLanguage |-> "", ContentType |-> "", From |-> NoAddress,
     To |-> <<>>, Subject |-> "", Body |-> <<>>]

(* CreateTextEmail, main.go 354-378.  written tells whether the mail       *)
(* library's writer could be created and written.                          *)
CreateTextEmail(e, written) ==
    IF written
    THEN [err |-> ErrNil,
          bytes |-> [Date |-> e.Date, ContentLanguage |-> "ru",
                     ContentType |-> "text/plain; charset=utf-8; format=flowed",
                     From |-> e.From, To |-> e.To, Subject |-> e.Subject,
                     Body |-> e.Body]]
    ELSE [err |-> "failed to create email", bytes |-> NoBytes]

(* A digest loop that stops one headline early.                            *)
RECURSIVE DigestEntries_StopsEarly(_, _, _)
DigestEntries_StopsEarly(headlines, i, buf) ==
    IF i >= Len(headlines) THEN buf
    ELSE DigestEntries_StopsEarly(headlines, i + 1,
             Append(buf, BodyItem("entry", headlines[i].ID, headlines[i].Title)))

(* main.go 250-255: the digest body.                                       *)
RECURSIVE DigestEntries(_, _, _)
DigestEntries(headlines, i, buf) ==
    IF i > Len(headlines) THEN buf
    ELSE DigestEntries(headlines, i + 1,
             Append(buf, BodyItem("entry", headlines[i].ID, headlines[i].Title)))

DigestBody(headlines) ==
    Append(DigestEntries(headlines, 1, <<BodyItem(header, 0, "")>>),
           BodyItem(footer, 0, ""))

(* main.go 259: fmt.Sprintf("%s@ubikom.cc", key.UbikomName).               *)
PollingAddress(ubikomName) == <<ubikomName, Domain>>

(* main.go 257-269: the Email of a digest reply.                           *)
DigestEmail(headlines, toAddr, ubikomName) ==
    [From |-> Address("", PollingAddress(ubikomName)),
     To |-> <<Address("", toAddr)>>,
     Subject |-> headlinesSubject,
     Date |-> "now",
     Body |-> DigestBody(headlines)]

(* An article reply composed with the digest's subject line.              *)
ArticleEmail_DigestSubject(text, headline, toAddr) ==
    [From |-> Address(ArticleFromName, <<"war-info", Domain>>),
     To |-> <<Address("", toAddr)>>,
     Subject |-> headlinesSubject,
     Date |-> "now",
     Body |-> text]

(* sendArticle, main.go 292-305: the Email of an article reply.            *)
ArticleEmail(text, headline, toAddr) ==
    [From |-> Address(ArticleFromName, <<"war-info", Domain>>),
     To |-> <<Address("", toAddr)>>,
     Subject |-> headline,
     Date |-> "now",
     Body |-> text]

(* A routing that addresses every reply to the gateway.                    *)
RespReceiver_AlwaysGateway(sender) == Gateway

(* main.go 274-277 and 310-313: the addressee of a reply.                  *)
RespReceiver(sender) == IF sender # Gateway THEN sender ELSE Gateway

----------------------------------------------------------------------------
(* The environment: what the dump service, the directory and the transport *)
(* can answer.                                                             *)

Senders == {"alice", Gateway}

Subjects ==
    { <<>>, <<"2">>, <<"9", "9">>, <<"0">>, <<"-", "0">>, <<"-", "2">>, <<"+", "1">>,
      <<" ", "2">>, <<"2", " ">>, <<"h", "i">>, <<"0", "0", "3">>,
      <<"2", "1", "4", "7", "4", "8", "3", "6", "4", "7">>,
      <<"2", "1", "4", "7", "4", "8", "3", "6", "4", "8">>,
      <<"-", "2", "1", "4", "7", "4", "8", "3", "6", "4", "8">>,
      <<"-", "2", "1", "4", "7", "4", "8", "3", "6", "4", "9">>,
      <<"9", "9", "9", "9", "9", "9", "9", "9", "9", "9", "9", "x">> }

BodyLine == Line(<<"Hello">>)

PlainDoc(s) ==
    <<FromLine(<<"alice@example.org">>), SubjectLine(s), BlankLine, BodyLine>>

MboxDoc ==
    <<Line(<<">", "From", " someone">>), Line(<<"From", " bob did something">>),
      FromLine(<<"legit@x">>), SubjectLine(<<"2">>), CRLine,
      Line(<<"From", " the editor:">>)>>

OtherDocs ==
    { MboxDoc,
      <<SubjectLine(<<"2">>), BlankLine, BodyLine>>,
      <<FromLine(<<>>), SubjectLine(<<"2">>), BlankLine, BodyLine>>,
      <<FromLine(<<"a@x", "b@x">>), SubjectLine(<<"2">>), BlankLine>>,
      <<BadFromLine, SubjectLine(<<"2">>), BlankLine, BodyLine>>,
      <<FromLine(<<"alice@example.org">>), BadSubjectLine, BlankLine>>,
      <<FromLine(<<"alice@example.org">>), BlankLine, BodyLine>>,
      <<Line(<<"garbage">>), FromLine(<<"alice@example.org">>), BlankLine>>,
      <<Line(<<"From", "age", ":">>), SubjectLine(<<>>), BlankLine>> }

Docs == {PlainDoc(s) : s \in Subjects} \cup OtherDocs

Cipher(rcpt, from, plain) == [rcpt |-> rcpt, from |-> from, plain |-> plain]

Message(sender, cipher, by, over) ==
    [Sender |-> sender, Content |-> cipher, Signature |-> [by |-> by, over |-> over]]

NoMsg == Message("", Cipher("", "", <<>>), "", Cipher("", "", <<>>))

(* The messages the inbox of identity `me` can hold: well-formed ones, and *)
(* ones signed by another key, signed over another ciphertext, encrypted   *)
(* for another identity or with another key.                               *)
WellFormed(me, s, d) == Message(s, Cipher(me, s, d), s, Cipher(me, s, d))

Inbox(me) ==
    {WellFormed(me, "alice", d) : d \in Docs}
    \cup {WellFormed(me, Gateway, PlainDoc(s)) : s \in {<<>>, <<"2">>}}
    \cup { Message("alice", Cipher(me, "alice", PlainDoc(<<>>)), "mallory",
                   Cipher(me, "alice", PlainDoc(<<>>))),
           Message("alice", Cipher(me, "alice", PlainDoc(<<>>)), "alice",
                   Cipher(me, "alice", PlainDoc(<<"2">>))),
           WellFormed("other", "alice", PlainDoc(<<>>)),
           Message("alice", Cipher(me, "mallory", PlainDoc(<<>>)), "alice",
                   Cipher(me, "mallory", PlainDoc(<<>>))) }

ErrNotFound == "rpc status NotFound"
ErrUnavailable == "rpc status Unavailable"
ErrNoStatus == "error without rpc status"

ReceiveErrors == {ErrNotFound, ErrUnavailable, ErrNoStatus}

(* status.FromError(err) and st.Code().                                    *)
StatusFromError(e) ==
    IF e = ErrNotFound THEN [ok |-> TRUE, code |-> "NotFound"]
    ELSE IF e = ErrUnavailable THEN [ok |-> TRUE, code |-> "Unavailable"]
    ELSE [ok |-> FALSE, code |-> "Unknown"]

(* Receive handling that takes the empty inbox for a failure.              *)
ReceiveDisposition_NotFoundFatal(e) ==
    IF e # ErrNil THEN "fatal" ELSE "process"

(* Receive handling that ends the drain on every error with an rpc status. *)
ReceiveDisposition_AnyStatusBreaks(e) ==
    IF e # ErrNil
    THEN IF StatusFromError(e).ok THEN "break" ELSE "fatal"
    ELSE "process"

(* main.go 174-185: what the poller does with the result of Receive.       *)
ReceiveDisposition(e) ==
    IF e # ErrNil
    THEN LET st == StatusFromError(e)
         IN  IF ~st.ok THEN "fatal"
             ELSE IF st.code = "NotFound" THEN "break"
             ELSE "fatal"
    ELSE "process"

LegacyClient == "lookupService"
BlockchainClient == "bc.NewLookupServiceClient(blockchain, lookupService)"

(* Requests made to the collaborators.                                     *)
NoCall ==
    [op |-> "", proof |-> NoProof, name |-> "", client |-> "",
     privateKey |-> PrivateKeyOf(""), sender |-> "", receiver |-> "",
     body |-> NoBytes, id |-> 0]

ReceiveCall(proof) == [NoCall EXCEPT !.op = "Receive", !.proof = proof]

LookupCall(name, client) == [NoCall EXCEPT !.op = "LookupName", !.name = name, !.client = client]

GetArticleCall(id) == [NoCall EXCEPT !.op = "GetArticle", !.id = id]

GetHeadlinesCall == [NoCall EXCEPT !.op = "GetHeadlines"]

SendEmailCall(privateKey, body, sender, receiver, client) ==
    [NoCall EXCEPT !.op = "SendEmail", !.privateKey = privateKey, !.body = body,
                   !.sender = sender, !.receiver = receiver, !.client = client]

NoKey == [of |-> "", valid |-> FALSE]

----------------------------------------------------------------------------
(* The initial state: the process has been started with some command line. *)

Init ==
    /\ pc = "start"
    /\ args \in [Keys : KeyArgs, UseLegacyLookupService : BOOLEAN]
    /\ keys = <<>>
    /\ combinedLookupClient = ""
    /\ cache = <<>>
    /\ refresher = "off"
    /\ nRefresh = 0
    /\ cycles = 0
    /\ ki = 1
    /\ nRecv = 0
    /\ res = NoMsg
    /\ err = ErrNil
    /\ lookupRes = NoKey
    /\ content = <<>>
    /\ to = ""
    /\ subj = <<>>
    /\ articleId = 0
    /\ email = NoEmail
    /\ resp = NoBytes
    /\ call = NoCall

startupVars == <<args, keys, combinedLookupClient, cache, refresher>>
loopVars == <<cycles, ki, nRecv>>
msgVars == <<res, lookupRes, content, to, subj, articleId, email, resp>>

(* log.Fatal: the process exits; nothing runs after it.                    *)
Fatal(e) ==
    /\ pc' = "exited"
    /\ err' = e

(* main.go 97-106.                                                         *)
LoadKeys ==
    /\ pc = "start"
    /\ IF Len(args.Keys) = 0
       THEN Fatal("at least one key must be specified") /\ UNCHANGED keys
       ELSE LET r == getKeys(args.Keys)
            IN  IF r.err # ErrNil
                THEN Fatal(r.err) /\ UNCHANGED keys
                ELSE /\ keys' = r.keys
                     /\ pc' = "dial"
                     /\ err' = ErrNil
    /\ UNCHANGED <<args, combinedLookupClient, cache, refresher, nRefresh,
                   loopVars, msgVars, call>>

(* main.go 108-118: connecting to the dump service.                        *)
DialDump ==
    /\ pc = "dial"
    /\ \E connected \in BOOLEAN :
          IF connected THEN pc' = "proofs" /\ err' = ErrNil
          ELSE Fatal("failed to connect to the dump server")
    /\ UNCHANGED <<startupVars, nRefresh, loopVars, msgVars, call>>

(* A loop that writes the proof of the first key into every entry.        *)
WithProofs_FirstKeyOnly(ks, n) ==
    [i \in 1..Len(ks) |->
        IF i <= n THEN [ks[i] EXCEPT !.IdentityProof = IdentityProof(ks[1].PrivateKey)]
        ELSE ks[i]]

(* main.go 120-126: one identity proof per key; failing = 0 when every     *)
(* proof can be generated, else the index of the key whose proof fails.    *)
WithProofs(ks, n) ==
    [i \in 1..Len(ks) |->
        IF i <= n THEN [ks[i] EXCEPT !.IdentityProof = IdentityProof(ks[i].PrivateKey)]
        ELSE ks[i]]

GenerateProofs ==
    /\ pc = "proofs"
    /\ \E failing \in 0..Len(keys) :
          IF failing = 0
          THEN /\ keys' = WithProofs(keys, Len(keys))
               /\ pc' = "lookupdial"
               /\ err' = ErrNil
          ELSE /\ keys' = WithProofs(keys, failing - 1)
               /\ Fatal("failed to generate identity proof")
    /\ UNCHANGED <<args, combinedLookupClient, cache, refresher, nRefresh,
                   loopVars, msgVars, call>>

(* main.go 145-151: the resolver the flag selects.                         *)
SelectLookupClient(useLegacy) == IF useLegacy THEN LegacyClient ELSE BlockchainClient

(* main.go 128-151: connecting to the lookup server and the blockchain     *)
(* node, then choosing the resolver.                                       *)
SetupLookup ==
    /\ pc = "lookupdial"
    /\ \E failure \in {ErrNil, "failed to connect to the lookup server",
                       "failed to connect to blockchain node"} :
          IF failure = ErrNil
          THEN /\ combinedLookupClient' = SelectLookupClient(args.UseLegacyLookupService)
               /\ pc' = "cacheinit"
               /\ err' = ErrNil
          ELSE Fatal(failure) /\ UNCHANGED combinedLookupClient
    /\ UNCHANGED <<args, keys, cache, refresher, nRefresh, loopVars, msgVars, call>>

(* main.go 153-169: the first Refresh, then the refresh goroutine and the  *)
(* poll ticker are started.                                                *)
InitCache ==
    /\ pc = "cacheinit"
    /\ \E refreshed \in BOOLEAN :
          IF refreshed
          THEN /\ \E c \in CacheContents : cache' = c
               /\ refresher' = "running"
               /\ pc' = "tick"
               /\ err' = ErrNil
          ELSE Fatal("failed to get headlines") /\ UNCHANGED <<cache, refresher>>
    /\ UNCHANGED <<args, keys, combinedLookupClient, nRefresh, loopVars, msgVars, call>>

(* A refresh goroutine that treats a failed Refresh as the first one is   *)
(* treated at startup: the process exits.                                  *)
RefreshTick_FatalOnError ==
    /\ refresher # "off"
    /\ pc # "exited"
    /\ nRefresh < MaxRefresh
    /\ nRefresh' = nRefresh + 1
    /\ \E refreshed \in BOOLEAN :
          IF refreshed
          THEN /\ \E c \in CacheContents : cache' = c
               /\ refresher' = "running"
               /\ UNCHANGED <<pc, err>>
          ELSE /\ Fatal("error refreshing headlines")
               /\ UNCHANGED <<cache, refresher>>
    /\ UNCHANGED <<args, keys, combinedLookupClient, loopVars, msgVars, call>>

(* main.go 159-167: one tick of the refresh goroutine; a failure is logged *)
(* and the goroutine waits for its next tick.                              *)
RefreshTick ==
    /\ refresher # "off"
    /\ pc # "exited"
    /\ nRefresh < MaxRefresh
    /\ nRefresh' = nRefresh + 1
    /\ \E refreshed \in BOOLEAN :
          IF refreshed
          THEN (\E c \in CacheContents : cache' = c) /\ refresher' = "running"
          ELSE cache' = cache /\ refresher' = "error refreshing headlines"
    /\ UNCHANGED <<pc, args, keys, combinedLookupClient, loopVars, msgVars, err, call>>

----------------------------------------------------------------------------
(* The poll loop, main.go 169-287.                                         *)

key == keys[ki]

(* The end of one iteration of the inner loop (`continue`, or the end of   *)
(* its body): the next step is another Receive for the same identity.      *)
Continue(e) ==
    /\ pc' = "receive"
    /\ err' = e
    /\ res' = NoMsg
    /\ lookupRes' = NoKey
    /\ content' = <<>>
    /\ to' = ""
    /\ subj' = <<>>
    /\ articleId' = 0
    /\ email' = NoEmail
    /\ resp' = NoBytes

(* A tick that starts the pass at the last key, leaving the others out.    *)
Tick_FromLastKey ==
    /\ pc = "tick"
    /\ cycles < MaxCycles
    /\ cycles' = cycles + 1
    /\ ki' = Len(keys)
    /\ pc' = "receive"
    /\ UNCHANGED <<startupVars, nRefresh, nRecv, msgVars, err, call>>

(* main.go 170-171: a tick of the poll ticker starts a pass over the keys. *)
Tick ==
    /\ pc = "tick"
    /\ cycles < MaxCycles
    /\ cycles' = cycles + 1
    /\ ki' = 1
    /\ pc' = "receive"
    /\ UNCHANGED <<startupVars, nRefresh, nRecv, msgVars, err, call>>

(* main.go 171-185: one Receive for the current identity.                  *)
Receive ==
    /\ pc = "receive"
    /\ nRecv < MaxRecv
    /\ nRecv' = nRecv + 1
    /\ call' = ReceiveCall(key.IdentityProof)
    /\ \E e \in ReceiveErrors \cup {ErrNil} :
       \E m \in (IF e = ErrNil THEN Inbox(key.UbikomName) ELSE {NoMsg}) :
          LET d == ReceiveDisposition(e)
          IN  IF d = "process"
              THEN /\ pc' = "lookup"
                   /\ res' = m
                   /\ err' = e
                   /\ ki' = ki
              ELSE IF d = "break"
              THEN /\ err' = e
                   /\ res' = res
                   /\ IF ki < Len(keys)
                      THEN ki' = ki + 1 /\ pc' = "receive"
                      ELSE ki' = ki /\ pc' = "tick"
              ELSE Fatal(e) /\ res' = res /\ ki' = ki
    /\ UNCHANGED <<startupVars, nRefresh, cycles, lookupRes, content, to, subj,
                   articleId, email, resp>>

(* main.go 187-194: the sender's key from the directory.                   *)
Lookup ==
    /\ pc = "lookup"
    /\ call' = LookupCall(res.Sender, combinedLookupClient)
    /\ \E answer \in {"key", "error", "invalid key"} :
          IF answer = "error"
          THEN Fatal("failed to get receiver public key") /\ lookupRes' = lookupRes
          ELSE IF answer = "invalid key"
          THEN /\ Fatal("invalid receiver public key")
               /\ lookupRes' = [of |-> res.Sender, valid |-> FALSE]
          ELSE /\ lookupRes' = PublicKeyOf(res.Sender)
               /\ pc' = "verify"
               /\ err' = ErrNil
    /\ UNCHANGED <<startupVars, nRefresh, loopVars, res, content, to, subj,
                   articleId, email, resp>>

(* main.go 196-198.                                                        *)
Verify ==
    /\ pc = "verify"
    /\ IF VerifySignature(res.Signature, lookupRes, res.Content)
       THEN pc' = "decrypt" /\ err' = err
       ELSE Fatal("signature verification failed")
    /\ UNCHANGED <<startupVars, nRefresh, loopVars, msgVars, call>>

(* main.go 200-203.                                                        *)
DecryptMessage ==
    /\ pc = "decrypt"
    /\ LET r == Decrypt(key.PrivateKey, res.Content, lookupRes)
       IN  IF r.err # ErrNil
           THEN Fatal(r.err) /\ content' = content
           ELSE /\ content' = r.plain
                /\ pc' = "parse"
                /\ err' = ErrNil
    /\ UNCHANGED <<startupVars, nRefresh, loopVars, res, lookupRes, to, subj,
                   articleId, email, resp, call>>

(* A parse step that treats a message it cannot parse as fatal.            *)
Parse_FatalOnError ==
    /\ pc = "parse"
    /\ LET r == ParseMessage(content)
       IN  IF r.err # ErrNil
           THEN Fatal(r.err) /\ UNCHANGED msgVars
           ELSE /\ to' = r.to
                /\ subj' = r.subj
                /\ articleId' = ArticleIdOf(r.subj)
                /\ pc' = "dispatch"
                /\ err' = ErrNil
                /\ UNCHANGED <<res, lookupRes, content, email, resp>>
    /\ UNCHANGED <<startupVars, nRefresh, loopVars, call>>

(* main.go 205-232: parsing; a message that cannot be parsed is skipped.   *)
Parse ==
    /\ pc = "parse"
    /\ LET r == ParseMessage(content)
       IN  IF r.err # ErrNil
           THEN Continue(r.err)
           ELSE /\ to' = r.to
                /\ subj' = r.subj
                /\ articleId' = ArticleIdOf(r.subj)
                /\ pc' = "dispatch"
                /\ err' = ErrNil
                /\ UNCHANGED <<res, lookupRes, content, email, resp>>
    /\ UNCHANGED <<startupVars, nRefresh, loopVars, call>>

(* A dispatch that answers a request for an article the cache does not    *)
(* have with the digest.                                                   *)
Dispatch_MissFallsToDigest ==
    /\ pc = "dispatch"
    /\ \E written \in BOOLEAN :
          IF IsArticleRequest(articleId) /\ GetArticle(cache, articleId).err = ErrNil
          THEN /\ call' = GetArticleCall(articleId)
               /\ \E a \in GetArticleResults(cache, articleId) :
                  LET e == ArticleEmail(a.text, a.headline, to)
                      c == CreateTextEmail(e, written)
                  IN  IF a.err # ErrNil THEN Continue(a.err)
                      ELSE IF c.err # ErrNil THEN Continue(c.err)
                      ELSE /\ email' = e
                           /\ resp' = c.bytes
                           /\ err' = ErrNil
                           /\ pc' = "sendArticle"
                           /\ UNCHANGED <<res, lookupRes, content, to, subj, articleId>>
          ELSE /\ call' = GetHeadlinesCall
               /\ LET e == DigestEmail(GetHeadlines(cache), to, key.UbikomName)
                      c == CreateTextEmail(e, written)
                  IN  /\ email' = e
                      /\ resp' = c.bytes
                      /\ err' = c.err
                      /\ pc' = "sendDigest"
                      /\ UNCHANGED <<res, lookupRes, content, to, subj, articleId>>
    /\ UNCHANGED <<startupVars, nRefresh, loopVars>>

(* main.go 234-272 with sendArticle 292-308: the cache is read and the     *)
(* reply is composed.  written: whether CreateTextEmail can write it.      *)
Dispatch ==
    /\ pc = "dispatch"
    /\ \E written \in BOOLEAN :
          IF IsArticleRequest(articleId)
          THEN /\ call' = GetArticleCall(articleId)
               /\ \E a \in GetArticleResults(cache, articleId) :
                  LET e == ArticleEmail(a.text, a.headline, to)
                      c == CreateTextEmail(e, written)
                  IN  IF a.err # ErrNil THEN Continue(a.err)
                      ELSE IF c.err # ErrNil THEN Continue(c.err)
                      ELSE /\ email' = e
                           /\ resp' = c.bytes
                           /\ err' = ErrNil
                           /\ pc' = "sendArticle"
                           /\ UNCHANGED <<res, lookupRes, content, to, subj, articleId>>
          ELSE /\ call' = GetHeadlinesCall
               /\ LET e == DigestEmail(GetHeadlines(cache), to, key.UbikomName)
                      c == CreateTextEmail(e, written)
                  IN  /\ email' = e
                      /\ resp' = c.bytes
                      /\ err' = c.err
                      /\ pc' = "sendDigest"
                      /\ UNCHANGED <<res, lookupRes, content, to, subj, articleId>>
    /\ UNCHANGED <<startupVars, nRefresh, loopVars>>

(* protoutil.SendEmail resolves the receiver with the lookup client it is  *)
(* given, encrypts, signs and sends; it returns the error of the step that *)
(* failed.                                                                 *)
ErrSendLookup == "failed to get receiver public key"
ErrSendTransport == "failed to send message"

SendEmailResults == {ErrNil, ErrSendLookup, ErrSendTransport}

(* A send path on which a failed recipient lookup ends the process.        *)
AfterSendEmail_LookupFatal(e) == IF e = ErrSendLookup THEN "fatal" ELSE "continue"

(* main.go 280-284 and 316-321: what follows the return of SendEmail; the  *)
(* error is logged and the loop body ends.                                 *)
AfterSendEmail(e) == "continue"

SendEmail(privateKey, body, sender, receiver, client) ==
    /\ call' = SendEmailCall(privateKey, body, sender, receiver, client)
    /\ \E e \in SendEmailResults :
          IF AfterSendEmail(e) = "continue"
          THEN Continue(e)
          ELSE Fatal(e) /\ UNCHANGED msgVars
    /\ UNCHANGED <<startupVars, nRefresh, loopVars>>

(* main.go 274-284: the digest reply is sent.                              *)
SendDigest ==
    /\ pc = "sendDigest"
    /\ SendEmail(key.PrivateKey, resp, key.UbikomName, RespReceiver(res.Sender),
                 LegacyClient)

(* An article branch without its `continue`: after the article reply the  *)
(* same message goes on to the digest reply.                               *)
SendArticle_FallsThrough ==
    /\ pc = "sendArticle"
    /\ call' = SendEmailCall(key.PrivateKey, resp, key.UbikomName,
                             RespReceiver(res.Sender), LegacyClient)
    /\ pc' = "sendDigest"
    /\ err' = ErrNil
    /\ UNCHANGED <<startupVars, nRefresh, loopVars, msgVars>>

(* main.go 241 and sendArticle 310-321: the article reply is sent.         *)
SendArticle ==
    /\ pc = "sendArticle"
    /\ SendEmail(key.PrivateKey, resp, key.UbikomName, RespReceiver(res.Sender),
                 LegacyClient)

Next ==
    \/ LoadKeys
    \/ DialDump
    \/ GenerateProofs
    \/ SetupLookup
    \/ InitCache
    \/ RefreshTick
    \/ Tick
    \/ Receive
    \/ Lookup
    \/ Verify
    \/ DecryptMessage
    \/ Parse
    \/ Dispatch
    \/ SendDigest
    \/ SendArticle

Spec == Init /\ [][Next]_vars

----------------------------------------------------------------------------
(* Steps of the main goroutine, named for the properties below.            *)

Processing == {"lookup", "verify", "decrypt", "parse", "dispatch", "sendDigest", "sendArticle"}

InLoop == Processing \cup {"receive"}

ReceiveStep == pc = "receive" /\ nRecv' = nRecv + 1

NoMessageWork ==
    /\ call' = ReceiveCall(key.IdentityProof)
    /\ UNCHANGED <<lookupRes, content, to, subj, articleId, email, resp, cache>>

(* C1: every identity is drained by back-to-back Receive calls, each       *)
(* returned message goes into the pipeline, and the drain of an identity   *)
(* ends exactly when Receive answers NotFound, which does not end the      *)
(* process and causes no lookup, decryption, parse, cache read or send:    *)
(* the poller goes on to the next identity (or waits for the next tick     *)
(* after the last one).                                                    *)
C1_DrainUntilNotFound ==
    [][ /\ (ReceiveStep /\ err' = ErrNotFound) =>
              /\ pc' # "exited"
              /\ NoMessageWork
              /\ IF ki < Len(keys) THEN pc' = "receive" /\ ki' = ki + 1
                 ELSE pc' = "tick"
        /\ (ReceiveStep /\ err' = ErrNil) =>
              /\ pc' = "lookup"
              /\ ki' = ki
              /\ res' \in Inbox(key.UbikomName)
        /\ (pc \in InLoop /\ (ki' # ki \/ pc' = "tick")) =>
              (ReceiveStep /\ err' = ErrNotFound)
        /\ (pc \in Processing /\ pc' \notin Processing \cup {"exited"}) =>
              (pc' = "receive" /\ ki' = ki /\ cycles' = cycles)
        /\ (pc \notin Processing /\ pc' \in Processing) =>
              (ReceiveStep /\ err' = ErrNil)
        /\ (call' # call /\ call'.op # "Receive") => pc \in Processing
      ]_vars

(* C1 witness: the first Receive of the first identity answered NotFound   *)
(* and the poller stands at the Receive of the second identity.            *)
C1_Witness ==
    /\ pc = "receive"
    /\ ki = 2
    /\ nRecv = 1
    /\ err = ErrNotFound
    /\ call = ReceiveCall(keys[1].IdentityProof)

(* C2: a Receive failure other than NotFound, with or without an rpc       *)
(* status, ends the process, and an ended process makes no further call    *)
(* and changes nothing.                                                    *)
C2_ReceiveFailureIsFatal ==
    [][ /\ (ReceiveStep /\ err' \notin {ErrNil, ErrNotFound}) => pc' = "exited"
        /\ pc = "exited" => UNCHANGED vars
      ]_vars

(* C2 witness: the process has exited on a Receive error that carries an   *)
(* rpc status other than NotFound.                                         *)
C2_Witness ==
    /\ pc = "exited"
    /\ err = ErrUnavailable
    /\ call.op = "Receive"

SignedBySender(m) == m.Signature.by = m.Sender /\ m.Signature.over = m.Content

DecryptableBy(m, name) == m.Content.rcpt = name /\ m.Content.from = m.Sender

(* C3: a message is decrypted only after the sender's key was resolved and *)
(* its signature over the ciphertext verified with it, it is parsed and    *)
(* answered only after it was decrypted, and a failed lookup, verification *)
(* or decryption ends the process, so no reply is sent for such a message. *)
C3_VerifyThenDecrypt ==
    [][ /\ (pc = "lookup" /\ pc' \notin {"lookup", "verify"}) => pc' = "exited"
        /\ (pc = "lookup" /\ pc' = "verify") =>
              (lookupRes' = PublicKeyOf(res.Sender) /\ call' = LookupCall(res.Sender, combinedLookupClient))
        /\ (pc = "verify" /\ pc' # "verify") =>
              IF SignedBySender(res) /\ lookupRes = PublicKeyOf(res.Sender)
              THEN pc' = "decrypt" ELSE pc' = "exited"
        /\ (pc = "decrypt" /\ pc' # "decrypt") =>
              IF DecryptableBy(res, key.UbikomName)
              THEN pc' = "parse" /\ content' = res.Content.plain
              ELSE pc' = "exited"
        /\ (pc' = "decrypt" /\ pc # "decrypt") => pc = "verify"
        /\ (pc' = "parse" /\ pc # "parse") => pc = "decrypt"
        /\ (call' # call /\ call'.op \in {"SendEmail", "GetArticle", "GetHeadlines"}) =>
              (SignedBySender(res) /\ DecryptableBy(res, key.UbikomName)
               /\ content = res.Content.plain)
      ]_vars

(* C3 witness: a message whose signature verified could not be decrypted   *)
(* and the process has exited.                                             *)
C3_Witness ==
    /\ pc = "exited"
    /\ err = "failed to decode message"
    /\ SignedBySender(res)
    /\ ~DecryptableBy(res, key.UbikomName)

SendStep == pc \in {"sendDigest", "sendArticle"} /\ pc' # pc

ParseErrors ==
    { "failed to read message", "failed to get from address",
      "more than one address in from address list", "failed to get subject" }

(* C5: a decrypted message that cannot be parsed (unreadable document,     *)
(* unreadable From list, a From list without exactly one address,          *)
(* unreadable subject) is skipped: nothing is sent for it, the process     *)
(* goes on, and the poller stands at the next Receive for the same         *)
(* identity in the state it has before every message.                      *)
C5_ParseFailureIsSkipped ==
    [][(pc = "parse" /\ pc' # "parse" /\ ParseMessage(content).err \in ParseErrors) =>
          /\ pc' = "receive"
          /\ ki' = ki
          /\ err' = ParseMessage(content).err
          /\ <<res, lookupRes, content, to, subj, articleId, email, resp>>'
                = <<NoMsg, NoKey, <<>>, "", <<>>, 0, NoEmail, NoBytes>>
          /\ UNCHANGED <<keys, cache, cycles, nRecv, call, combinedLookupClient>>
      ]_vars

(* C5 witness: a message with two From addresses was skipped and the       *)
(* poller stands at the next Receive.                                      *)
C5_Witness ==
    /\ pc = "receive"
    /\ err = "more than one address in from address list"
    /\ call.op = "LookupName"

----------------------------------------------------------------------------
(* Decimal notation, read off the characters of a subject independently of *)
(* the parser: sign, digits, leading zeros, and comparison of digit        *)
(* strings with the 32-bit limits.                                         *)

IsNegative(s) == Len(s) > 0 /\ s[1] = "-"

Magnitude(s) == IF Len(s) > 0 /\ s[1] \in {"+", "-"} THEN Tail(s) ELSE s

IsInteger(s) ==
    /\ Len(Magnitude(s)) > 0
    /\ \A i \in 1..Len(Magnitude(s)) : Magnitude(s)[i] \in {Digits[j] : j \in 1..10}

RECURSIVE DigitPrefix(_)
DigitPrefix(d) ==
    IF Len(d) = 0 \/ d[1] \notin {Digits[j] : j \in 1..10} THEN <<>>
    ELSE <<d[1]>> \o DigitPrefix(Tail(d))

RECURSIVE StripZeros(_)
StripZeros(d) == IF Len(d) > 0 /\ d[1] = "0" THEN StripZeros(Tail(d)) ELSE d

(* a > limit, for digit strings without leading zeros.                     *)
DigitsGreater(a, limit) ==
    \/ Len(a) > Len(limit)
    \/ /\ Len(a) = Len(limit)
       /\ \E i \in 1..Len(a) :
             /\ DigitVal(a[i]) > DigitVal(limit[i])
             /\ \A j \in 1..(i - 1) : a[j] = limit[j]

Uint32Digits == <<"4", "2", "9", "4", "9", "6", "7", "2", "9", "5">>
Int32MaxDigits == <<"2", "1", "4", "7", "4", "8", "3", "6", "4", "7">>
Int32MinDigits == <<"2", "1", "4", "7", "4", "8", "3", "6", "4", "8">>

InInt32(s) ==
    ~DigitsGreater(StripZeros(Magnitude(s)),
                   IF IsNegative(s) THEN Int32MinDigits ELSE Int32MaxDigits)

(* The value of -d, for digits d of a magnitude within the 32-bit range.   *)
RECURSIVE NegValue(_, _)
NegValue(d, acc) ==
    IF Len(d) = 0 THEN acc ELSE NegValue(Tail(d), acc * 10 - DigitVal(d[1]))

IntegerValue(s) ==
    IF IsNegative(s) THEN NegValue(StripZeros(Magnitude(s)), 0)
    ELSE 0 - NegValue(StripZeros(Magnitude(s)), 0)

IsZero(s) == IsInteger(s) /\ Len(StripZeros(Magnitude(s))) = 0

DispatchStep == pc = "dispatch" /\ pc' # "dispatch"

(* C6 as stated: the intent is ArticleRequest(n) when the program's parse  *)
(* of the whole subject succeeds with n # 0, and Digest whenever the parse *)
(* reports a failure of any kind or the value is 0.                        *)
C6_IntentFollowsParseResult ==
    [][DispatchStep =>
          LET p == ParseInt(subj)
          IN  IF p.err = ErrNil /\ p.val # 0
              THEN call' = GetArticleCall(p.val)
              ELSE call' = GetHeadlinesCall /\ pc' = "sendDigest"
      ]_vars

(* C7 as stated: ArticleRequest exactly for the subjects that are entirely *)
(* a positive integer; Digest, answered with the headline digest, for      *)
(* every other subject, negative integers included.                        *)
C7_OnlyPositiveIsArticleRequest ==
    [][DispatchStep =>
          IF IsInteger(subj) /\ ~IsNegative(subj) /\ ~IsZero(subj)
          THEN call'.op = "GetArticle"
          ELSE call' = GetHeadlinesCall /\ pc' = "sendDigest"
      ]_vars

(* C7 amended: a subject that is entirely an integer other than zero,      *)
(* negative or positive, yields ArticleRequest of that integer, and of the *)
(* nearest 32-bit limit when the integer lies outside the 32-bit range;    *)
(* the empty subject, zero and non-numeric text yield Digest and are       *)
(* answered with the headline digest, except text that begins with a digit *)
(* string beyond 32 unsigned bits, which yields ArticleRequest of the      *)
(* 32-bit limit.                                                           *)
C7_NonZeroIntegerIsArticleRequest ==
    [][DispatchStep =>
          IF IsInteger(subj) /\ ~IsZero(subj)
          THEN IF InInt32(subj)
               THEN call' = GetArticleCall(IntegerValue(subj))
               ELSE call' = GetArticleCall(IF IsNegative(subj) THEN IntMin ELSE IntMax)
          ELSE IF /\ ~IsInteger(subj)
                  /\ DigitsGreater(StripZeros(DigitPrefix(Magnitude(subj))), Uint32Digits)
          THEN call' = GetArticleCall(IF IsNegative(subj) THEN IntMin ELSE IntMax)
          ELSE call' = GetHeadlinesCall /\ pc' = "sendDigest"
      ]_vars

(* C7 witness: a message with the subject "-2" is about to be dispatched   *)
(* as a request for article -2.                                            *)
C7_Witness ==
    /\ pc = "dispatch"
    /\ subj = <<"-", "2">>
    /\ articleId = 0 - 2

InCache(c, id) == \E i \in 1..Len(c) : c[i].ID = id

(* C8: a request for an article the cache does not have, or for which the  *)
(* cache fails, is not answered at all, neither with the article nor with  *)
(* a digest; the process goes on and the next step is another Receive for  *)
(* the same identity.                                                      *)
C8_CacheMissIsNotAnswered ==
    [][(DispatchStep /\ articleId # 0
           /\ (~InCache(cache, articleId) \/ err' = "cache error")) =>
          /\ pc' = "receive"
          /\ ki' = ki
          /\ cycles' = cycles
          /\ call' = GetArticleCall(articleId)
          /\ email' = NoEmail
          /\ resp' = NoBytes
      ]_vars

(* C8 witness: article 99 was asked for and not found, nothing was sent,   *)
(* and the poller stands at the next Receive.                              *)
C8_Witness ==
    /\ pc = "receive"
    /\ call = GetArticleCall(99)
    /\ err = "article not found"

FixedArticleFrom == Address(ArticleFromName, <<"war-info", Domain>>)

(* C9 as stated: the article reply carries the fixed article-delivery      *)
(* identity as its From address and is signed and handed to the transport  *)
(* under that identity, whichever identity polled the request.             *)
C9_ArticleSentAsFixedIdentity ==
    [][(pc = "sendArticle" /\ pc' # pc) =>
          /\ call'.body.From = FixedArticleFrom
          /\ call'.sender = "war-info"
          /\ call'.privateKey = PrivateKeyOf("war-info")
      ]_vars

(* C9 amended: an article request the cache answers is replied to with the *)
(* article's headline as subject and its full text as body, and with the   *)
(* fixed article-delivery identity as the From address of the composed     *)
(* document, for every polling identity; the reply is signed with the key  *)
(* of, and handed to the transport under the name of, the polling identity *)
(* that received the request.                                              *)
C9_ArticleReply ==
    [][ /\ (DispatchStep /\ articleId # 0 /\ InCache(cache, articleId)) =>
              \/ /\ pc' = "sendArticle"
                 /\ email'.Subject = GetArticle(cache, articleId).headline
                 /\ email'.Body = GetArticle(cache, articleId).text
                 /\ email'.From = FixedArticleFrom
                 /\ email'.To = <<Address("", to)>>
                 /\ resp'.Subject = email'.Subject
                 /\ resp'.Body = email'.Body
                 /\ resp'.From = email'.From
                 /\ resp'.To = email'.To
              \/ /\ pc' = "receive"
                 /\ err' \in {"failed to create email", "cache error"}
                 /\ call' = GetArticleCall(articleId)
        /\ (pc' = "sendArticle" /\ pc # "sendArticle") =>
              (DispatchStep /\ articleId # 0 /\ InCache(cache, articleId))
        /\ (pc = "sendArticle" /\ pc' # pc) =>
              /\ call'.op = "SendEmail"
              /\ call'.body = resp
              /\ call'.sender = key.UbikomName
              /\ call'.privateKey = PrivateKeyOf(key.UbikomName)
      ]_vars

(* C9 witness: article 2 has been sent by the polling identity "news" with *)
(* the fixed identity in its From header.                                  *)
C9_Witness ==
    /\ call.op = "SendEmail"
    /\ call.sender = "news"
    /\ call.privateKey = PrivateKeyOf("news")
    /\ call.body.From = FixedArticleFrom
    /\ call.body.Subject = "Ceasefire talks"
    /\ call.body.Body = <<BodyItem("text", 2, "")>>

C11_ReplyRouting ==
    [][SendStep =>
          /\ call'.op = "SendEmail"
          /\ res.Sender \in Senders
          /\ IF res.Sender # "gateway"
             THEN call'.receiver = res.Sender
             ELSE call'.receiver = "gateway"
      ]_vars

(* C11 witness: an article reply to a request that came from "alice" has   *)
(* been handed to the transport, addressed to "alice".                     *)
C11_Witness ==
    /\ pc = "receive"
    /\ call.op = "SendEmail"
    /\ call.receiver = "alice"
    /\ call.body.From = FixedArticleFrom

-----------------------------------------------------------------------------
(* filterMalformedHeaders on its own: a received message whose plaintext   *)
(* is any short text over the lines below (or the mbox-style document),    *)
(* decrypted into `content` and filtered once, then once more.             *)

MaxLines == 3

FilterLines ==
    { Line(<<">", "From", " someone">>),
      Line(<<"From", " bob did something">>),
      Line(<<"From", " bob", "\r">>),
      Line(<<"From", "age", ":">>),
      FromLine(<<"legit@x">>),
      SubjectLine(<<"2">>),
      BlankLine,
      CRLine,
      BodyLine }

RECURSIVE TextsOfLen(_)
TextsOfLen(n) ==
    IF n = 0 THEN {<<>>}
    ELSE {Append(t, l) : t \in TextsOfLen(n - 1), l \in FilterLines}

(* strings.Split(text, "\n") never gives fewer than one line.              *)
FilterInputs == UNION {TextsOfLen(n) : n \in 1..MaxLines} \cup {MboxDoc}

FilterInit ==
    /\ pc = "filter"
    /\ args = [Keys |-> <<>>, UseLegacyLookupService |-> TRUE]
    /\ keys = <<>>
    /\ combinedLookupClient = ""
    /\ cache = <<>>
    /\ refresher = "off"
    /\ nRefresh = 0
    /\ cycles = 0
    /\ ki = 1
    /\ nRecv = 0
    /\ res \in {WellFormed("news", "alice", d) : d \in FilterInputs}
    /\ err = ErrNil
    /\ lookupRes = NoKey
    /\ content = res.Content.plain
    /\ to = ""
    /\ subj = <<>>
    /\ articleId = 0
    /\ email = NoEmail
    /\ resp = NoBytes
    /\ call = NoCall

filterFrame ==
    <<startupVars, nRefresh, loopVars, res, err, lookupRes, to, subj, articleId,
      email, resp, call>>

(* main.go 205: the filter applied to the decrypted plaintext.             *)
FilterOnce ==
    /\ pc = "filter"
    /\ content' = filterMalformedHeaders(content)
    /\ pc' = "filtered"
    /\ UNCHANGED filterFrame

(* The filter applied to its own output.                                   *)
FilterAgain ==
    /\ pc = "filtered"
    /\ content' = filterMalformedHeaders(content)
    /\ pc' = "refiltered"
    /\ UNCHANGED filterFrame

FilterNext == FilterOnce \/ FilterAgain

FilterSpec == FilterInit /\ [][FilterNext]_vars

-----------------------------------------------------------------------------
(* Claims about filterMalformedHeaders.                                    *)

(* The text the filter was given: the received message's plaintext.        *)
FilterInput == res.Content.plain

IsBlank(line) == line.tok = <<>> \/ line.tok = <<"\r">>

HasBlank(text) == \E i \in 1..Len(text) : IsBlank(text[i])

(* C12: filtering a text that has already been filtered changes nothing:   *)
(* filter(filter(x)) = filter(x) for every text x, also one without a      *)
(* blank line, one whose header lines are all dropped and one with "\r\n"  *)
(* line ends.                                                              *)
C12_FilterIdempotent ==
    [][(pc = "filtered" /\ pc' = "refiltered") => content' = content]_vars

(* C12 witness: a text with no blank line, all of whose lines were         *)
(* dropped, one of them ending in "\r", has been filtered twice.           *)
C12_Witness ==
    /\ pc = "refiltered"
    /\ Len(FilterInput) >= 2
    /\ ~HasBlank(FilterInput)
    /\ \E i \in 1..Len(FilterInput) : FilterInput[i].tok = <<"From", " bob", "\r">>
    /\ content = <<BlankLine>>

(* A line begins with the given characters.                                *)
BeginsWith(line, chars) ==
    /\ Len(line.tok) >= Len(chars)
    /\ SubSeq(line.tok, 1, Len(chars)) = chars

(* The lines the filter is to remove: those before the first blank line    *)
(* that begin with ">From", or with "From" and no colon right after it.    *)
BeforeFirstBlank(text, i) == \A j \in 1..i : ~IsBlank(text[j])

Malformed(line) ==
    \/ BeginsWith(line, <<">", "From">>)
    \/ (BeginsWith(line, <<"From">>) /\ ~BeginsWith(line, <<"From", ":">>))

Removed(text) ==
    {i \in 1..Len(text) : BeforeFirstBlank(text, i) /\ Malformed(text[i])}

Kept(text) == (1..Len(text)) \ Removed(text)

(* The k-th kept line of the text, in the order of the text.               *)
KeptAt(text, k) ==
    text[CHOOSE i \in Kept(text) : Cardinality({j \in Kept(text) : j <= i}) = k]

(* The text made of the kept lines; no line at all is the empty text.      *)
KeptText(text) ==
    IF Kept(text) = {} THEN <<BlankLine>>
    ELSE [k \in 1..Cardinality(Kept(text)) |-> KeptAt(text, k)]

(* C13: the filter removes exactly the lines before the first blank line   *)
(* that begin with ">From" or with "From" not followed at once by a colon; *)
(* "From:" lines and all other header lines, the first blank line and all  *)
(* that follows it are kept unchanged and in their order.                  *)
C13_FilterRemovesExactly ==
    [][(pc = "filter" /\ pc' = "filtered") =>
          /\ content' = KeptText(content)
          /\ \A i \in 1..Len(content) :
                 (BeginsWith(content[i], <<"From", ":">>) \/ ~BeforeFirstBlank(content, i))
                     => i \in Kept(content)
      ]_vars

(* C13 witness: the mbox-style document (a ">From" line and a "From bob"   *)
(* line before the legitimate "From:" line, a body line "From the editor:" *)
(* after the blank line) has been filtered.                                *)
C13_Witness ==
    /\ pc = "filtered"
    /\ FilterInput = MboxDoc
    /\ content = <<FromLine(<<"legit@x">>), SubjectLine(<<"2">>), CRLine,
                   Line(<<"From", " the editor:">>)>>

-----------------------------------------------------------------------------
(* Claims about the order of the poll loop.                                *)

(* C14: the identities are polled one after another, never in parallel:    *)
(* at any moment at most one identity, the current one, has a message in   *)
(* the pipeline; a poll cycle starts at the first configured identity,     *)
(* moves from one identity to the next in configured order only when the   *)
(* Receive of the current identity answered NotFound, and ends (unless the *)
(* process ended) only when the last identity answered NotFound.           *)
C14_SequentialPolling ==
    [][ /\ (pc = "tick" /\ pc' # "tick") =>
              /\ pc' = "receive"
              /\ ki' = 1
              /\ cycles' = cycles + 1
        /\ ReceiveStep => call'.proof = keys[ki].IdentityProof
        /\ (pc \in InLoop /\ ki' # ki) =>
              /\ ReceiveStep /\ err' = ErrNotFound
              /\ ki' = ki + 1
              /\ ki' <= Len(keys)
              /\ pc' = "receive"
        /\ (pc \in InLoop /\ pc' = "tick") =>
              /\ ReceiveStep /\ err' = ErrNotFound
              /\ ki = Len(keys)
              /\ cycles' = cycles
        /\ pc' \in InLoop => ki' \in 1..Len(keys)
        /\ pc' \in Processing => res' \in Inbox(keys[ki'].UbikomName)
        /\ pc' \in {"receive", "tick"} => res' = NoMsg
      ]_vars

(* C14 witness: a whole poll cycle over two identities has ended: three    *)
(* Receive calls, one of which returned a message that went through the    *)
(* pipeline, and one NotFound for each identity.                           *)
C14_Witness ==
    /\ pc = "tick"
    /\ cycles = 1
    /\ Len(keys) = 2
    /\ ki = 2
    /\ nRecv = 3
    /\ err = ErrNotFound

(* The order of the stages of one message, the two ways a message is       *)
(* skipped, and the end of a send.                                         *)
PipelineOrder ==
    { <<"receive", "lookup">>, <<"lookup", "verify">>, <<"verify", "decrypt">>,
      <<"decrypt", "parse">>, <<"parse", "dispatch">>,
      <<"dispatch", "sendDigest">>, <<"dispatch", "sendArticle">> }

Skipped == { <<"parse", "receive">>, <<"dispatch", "receive">> }

Sent == { <<"sendDigest", "receive">>, <<"sendArticle", "receive">> }

(* C15: one message goes through receiving, decrypting (lookup, verify,    *)
(* decrypt), parsing, dispatching with composing, and sending, in that     *)
(* order; the next Receive is issued only after the current message has    *)
(* been sent or skipped; a send is attempted only for a received message   *)
(* and at most once for it.                                                *)
C15_PipelineOrder ==
    [][ /\ (pc \in Processing /\ pc' # pc) =>
              \/ pc' = "exited"
              \/ <<pc, pc'>> \in PipelineOrder \cup Skipped \cup Sent
        /\ (pc' \in Processing /\ pc' # pc) => <<pc, pc'>> \in PipelineOrder
        /\ ReceiveStep => (res = NoMsg /\ call'.op = "Receive")
        /\ (pc = "lookup" /\ pc' # pc) => call'.op = "LookupName"
        /\ DispatchStep => call'.op \in {"GetArticle", "GetHeadlines"}
        /\ SendStep =>
              /\ call'.op = "SendEmail"
              /\ res \in Inbox(key.UbikomName)
              /\ pc' = "receive" => res' = NoMsg
        /\ (call'.op = "SendEmail" /\ ~SendStep) => call' = call
      ]_vars

(* C15 witness: the first received message went through all stages, its    *)
(* digest reply was handed to the transport, and the poller is back at     *)
(* Receive with no message in flight.                                      *)
C15_Witness ==
    /\ pc = "receive"
    /\ nRecv = 1
    /\ res = NoMsg
    /\ call.op = "SendEmail"
    /\ call.body.Subject = headlinesSubject
    /\ err = ErrNil

-----------------------------------------------------------------------------
(* Claims about the directory backend.                                     *)

(* C16: the directory backend selected at startup is used for every name   *)
(* resolution: the resolver given to the send for the recipient's key is   *)
(* the one that resolved the sender's key for verification, whichever      *)
(* value the startup flag has.                                             *)
C16_OneResolver ==
    [][ /\ (pc = "lookup" /\ pc' # pc) => call'.client = combinedLookupClient
        /\ SendStep => call'.client = combinedLookupClient
      ]_vars

-----------------------------------------------------------------------------
(* Claims about the refresh goroutine.                                     *)

RefreshStep == nRefresh' = nRefresh + 1

RefreshFailed == refresher = "error refreshing headlines"

(* The main goroutine can take its next step (as far as the bounds of the  *)
(* model let the loop run).  The parse step is left out: it calls no       *)
(* collaborator and has no condition but the position of the goroutine.    *)
MainCanStep ==
    /\ (pc = "tick" /\ cycles < MaxCycles) => ENABLED Tick
    /\ (pc = "receive" /\ nRecv < MaxRecv) => ENABLED Receive
    /\ pc = "lookup" => ENABLED Lookup
    /\ pc = "verify" => ENABLED Verify
    /\ pc = "decrypt" => ENABLED DecryptMessage
    /\ pc = "dispatch" => ENABLED Dispatch
    /\ pc = "sendDigest" => ENABLED SendDigest
    /\ pc = "sendArticle" => ENABLED SendArticle

(* C17: the periodic refresh runs beside the poll loop: a tick of it, also *)
(* a failed one, can come at any point of the loop, leaves the main        *)
(* goroutine where it is with all its state, and does not end the process; *)
(* after a failed Refresh the poll loop can take its next step and Refresh *)
(* is attempted again at the next tick of the refresh timer.               *)
C17_RefreshFailureIsHarmless ==
    /\ [][RefreshStep =>
             /\ pc' = pc
             /\ pc' # "exited"
             /\ UNCHANGED <<args, keys, combinedLookupClient, loopVars, msgVars, err, call>>
         ]_vars
    /\ []((RefreshFailed /\ pc # "exited") =>
             /\ MainCanStep
             /\ nRefresh < MaxRefresh => ENABLED RefreshTick)
    /\ []((pc \in InLoop \cup {"tick"} /\ nRefresh < MaxRefresh) => ENABLED RefreshTick)

(* C17 witness: the first periodic Refresh failed while a message was      *)
(* between lookup and verification.                                        *)
C17_Witness ==
    /\ pc = "verify"
    /\ nRefresh = 1
    /\ RefreshFailed
    /\ res # NoMsg

-----------------------------------------------------------------------------
(* Claims about the identity proofs.                                       *)

(* The proof made at startup for the identity of that name.                *)
OwnProof(name) == [key |-> name, made |-> "startup"]

(* C18: the proof of each identity is written once, at startup and before  *)
(* the first Receive, from the identity's own private key, and is never    *)
(* changed afterwards; every Receive for an identity carries exactly that  *)
(* identity's proof.                                                       *)
C18_ProofWrittenOnce ==
    [][ /\ keys' # keys => (pc \in {"start", "proofs"} /\ nRecv = 0)
        /\ \A i \in 1..Len(keys) :
              keys[i].IdentityProof # NoProof =>
                  /\ Len(keys') = Len(keys)
                  /\ keys'[i].IdentityProof = keys[i].IdentityProof
        /\ \A i \in 1..Len(keys) :
              (Len(keys') = Len(keys) /\ keys'[i].IdentityProof # keys[i].IdentityProof) =>
                  /\ keys[i].IdentityProof = NoProof
                  /\ keys'[i].IdentityProof = OwnProof(keys[i].UbikomName)
                  /\ keys'[i].PrivateKey = PrivateKeyOf(keys[i].UbikomName)
        /\ pc' \in InLoop \cup {"tick"} =>
              \A i \in 1..Len(keys') : keys'[i].IdentityProof = OwnProof(keys'[i].UbikomName)
        /\ ReceiveStep =>
              /\ call'.op = "Receive"
              /\ call'.proof = keys[ki].IdentityProof
              /\ call'.proof = OwnProof(keys[ki].UbikomName)
      ]_vars

(* C18 witness: after the second identity was drained in the first poll    *)
(* cycle with its own proof, the Receive for the first identity in the     *)
(* second cycle carried the first identity's proof from startup.           *)
C18_Witness ==
    /\ cycles = 2
    /\ ki = 1
    /\ nRecv = 3
    /\ keys[1].UbikomName = "news"
    /\ keys[2].IdentityProof = OwnProof("war-info")
    /\ call = ReceiveCall(OwnProof("news"))

-----------------------------------------------------------------------------
(* Claims about composing and sending.                                     *)

ComposeFailed == "failed to create email"

(* C19: every reply handed to the send step is the document of a           *)
(* successful composition: on the digest path and on the article path      *)
(* alike, when composing the reply fails no send is attempted for that     *)
(* message.                                                                *)
C19_NoSendAfterFailedCompose ==
    [][ /\ (DispatchStep /\ err' = ComposeFailed) => pc' = "receive"
        /\ SendStep =>
              /\ call'.body # NoBytes
              /\ call'.body = CreateTextEmail(email, TRUE).bytes
      ]_vars

====
